---- MODULE Spec2Model ----
(***************************************************************************)
(* A model of more_itertools/__init__.py: chunked, first, the peekable     *)
(* wrapper and collate (the sorted merge built on peekable).               *)
(*                                                                         *)
(* Each of the four components has its own state record and its own        *)
(* specification (SpecChunked, SpecFirst, SpecPeekable, SpecCollate); the  *)
(* records of the other components stay idle.                              *)
(***************************************************************************)
EXTENDS Integers, Sequences, FiniteSets

VARIABLES ck, fs, pk, co

vars == <<ck, fs, pk, co>>

(***************************************************************************)
(* Values.  Elements are small integers; 0 is the falsy one.  _marker is   *)
(* the module's private sentinel object, distinct from every element.      *)
(***************************************************************************)
Elem == {0, 1, 2}

_marker == -1

\* Python's None, a legal default of first() and a falsy value.
NoneVal == _marker - 1

\* Placeholder for "no value": an attribute that is not set, a call that raised.
Unset == NoneVal - 1

\* Longest source handed to chunked, first and peekable.
MaxLen == 3

\* Largest group size handed to chunked.
MaxN == 3

\* Longest run of peek() calls recorded between two next() calls.
MaxRun == 3

SeqsUpTo(S, n) == UNION {[1..k -> S] : k \in 0..n}

\* bool(x) of Python for the values of the model.
Truthy(x) == x # 0 /\ x # NoneVal

(***************************************************************************)
(* The underlying iterator of a finite sequence: pos elements have been    *)
(* pulled.  next() on it returns src[pos+1], or raises StopIteration (ok   *)
(* FALSE) and stays where it is.                                           *)
(***************************************************************************)
ItNext(src, pos) ==
    IF pos < Len(src)
    THEN [ok |-> TRUE, val |-> src[pos + 1], pos |-> pos + 1]
    ELSE [ok |-> FALSE, val |-> Unset, pos |-> pos]

(***************************************************************************)
(* chunked                                                                 *)
(***************************************************************************)

\* One round of izip_longest over k references to the same iterator, with
\* fillvalue=_marker: each slot calls next() on the shared iterator in turn.
RECURSIVE izip_longest(_, _, _)
izip_longest(src, pos, k) ==
    IF k = 0
    THEN [group |-> <<>>, pos |-> pos]
    ELSE LET r == ItNext(src, pos)
             rest == izip_longest(src, r.pos, k - 1)
         IN  [group |-> <<IF r.ok THEN r.val ELSE _marker>> \o rest.group,
              pos |-> rest.pos]

\* Faulty variant of shuck: the padding is left in the last group.
shuckKeepsPadding(group) == group

\* Lines 23-25: if the group ends in the marker, drop every marker.
shuck(group) ==
    IF group[Len(group)] = _marker
    THEN SelectSeq(group, LAMBDA x : x # _marker)
    ELSE group

ChunkedIdle == [pc |-> "idle", src |-> <<>>, n |-> 1, pos |-> 0, out |-> <<>>]

ChunkedInit ==
    ck \in {[pc |-> "run", src |-> s, n |-> n, pos |-> 0, out |-> <<>>] :
               s \in SeqsUpTo(Elem, MaxLen), n \in 1..MaxN}

\* izip_longest ends when a round finds every slot exhausted.
AllFill(group) == \A i \in DOMAIN group : group[i] = _marker

\* The consumer asks for the next group and izip_longest has one.
chunkedYield ==
    /\ ck.pc = "run"
    /\ LET z == izip_longest(ck.src, ck.pos, ck.n)
       IN  /\ ~AllFill(z.group)
           /\ ck' = [ck EXCEPT !.pos = z.pos, !.out = Append(@, shuck(z.group))]
    /\ UNCHANGED <<fs, pk, co>>

\* The consumer asks for the next group and every slot is exhausted.
chunkedStop ==
    /\ ck.pc = "run"
    /\ LET z == izip_longest(ck.src, ck.pos, ck.n)
       IN  /\ AllFill(z.group)
           /\ ck' = [ck EXCEPT !.pc = "done", !.pos = z.pos]
    /\ UNCHANGED <<fs, pk, co>>

(***************************************************************************)
(* first                                                                   *)
(***************************************************************************)

\* Faulty variant of first: a default of None is taken for "no default".
firstNoneIsMissing(src, default) ==
    LET r == ItNext(src, 0)
    IN  IF r.ok THEN [kind |-> "return", val |-> r.val, pulled |-> r.pos]
        ELSE IF default = _marker \/ default = NoneVal
             THEN [kind |-> "ValueError", val |-> Unset, pulled |-> r.pos]
             ELSE [kind |-> "return", val |-> default, pulled |-> r.pos]

\* Lines 44-50; default = _marker stands for "no default supplied".
first(src, default) ==
    LET r == ItNext(src, 0)
    IN  IF r.ok THEN [kind |-> "return", val |-> r.val, pulled |-> r.pos]
        ELSE IF default = _marker
             THEN [kind |-> "ValueError", val |-> Unset, pulled |-> r.pos]
             ELSE [kind |-> "return", val |-> default, pulled |-> r.pos]

FirstIdle == [pc |-> "idle", src |-> <<>>, default |-> _marker,
              res |-> [kind |-> "none", val |-> Unset, pulled |-> 0]]

FirstInit ==
    fs \in {[pc |-> "call", src |-> s, default |-> d,
             res |-> [kind |-> "none", val |-> Unset, pulled |-> 0]] :
               s \in SeqsUpTo(Elem, MaxLen), d \in Elem \cup {_marker, NoneVal}}

firstCall ==
    /\ fs.pc = "call"
    /\ fs' = [fs EXCEPT !.pc = "done", !.res = first(fs.src, fs.default)]
    /\ UNCHANGED <<ck, pk, co>>

(***************************************************************************)
(* peekable                                                                *)
(*                                                                         *)
(* A wrapper is [pos, has, val]: pos elements pulled from self._it, has is *)
(* hasattr(self, '_peek'), val is self._peek (Unset when the attribute is  *)
(* absent).  Each method returns the wrapper after the call and what the   *)
(* call gave: ok FALSE is StopIteration.                                   *)
(***************************************************************************)
NewPeekable == [pos |-> 0, has |-> FALSE, val |-> Unset]

\* Faulty variant of peek: the cache is not consulted, every call reads the iterator.
peekAlwaysReads(src, w) ==
    LET r == ItNext(src, w.pos)
    IN  IF r.ok
        THEN [w |-> [pos |-> r.pos, has |-> TRUE, val |-> r.val],
              ok |-> TRUE, val |-> r.val]
        ELSE [w |-> w, ok |-> FALSE, val |-> Unset]

\* Lines 96-98.
peek(src, w) ==
    IF ~w.has
    THEN LET r == ItNext(src, w.pos)
         IN  IF r.ok
             THEN [w |-> [pos |-> r.pos, has |-> TRUE, val |-> r.val],
                   ok |-> TRUE, val |-> r.val]
             ELSE [w |-> w, ok |-> FALSE, val |-> Unset]
    ELSE [w |-> w, ok |-> TRUE, val |-> w.val]

\* Faulty variant of next: the cached value is returned but never deleted.
nextKeepsCache(src, w) == peek(src, w)

\* Lines 101-103.
next(src, w) ==
    LET r == peek(src, w)
    IN  IF r.ok
        THEN [w |-> [r.w EXCEPT !.has = FALSE, !.val = Unset],
              ok |-> TRUE, val |-> r.val]
        ELSE r

\* Faulty variant of nonzero: the truth value of the head element is returned.
nonzeroOfValue(src, w) ==
    LET r == peek(src, w)
    IN  [w |-> r.w, ok |-> TRUE, val |-> r.ok /\ Truthy(r.val)]

\* Lines 82-86: __nonzero__; StopIteration is caught, the answer is in val.
nonzero(src, w) ==
    LET r == peek(src, w)
    IN  [w |-> r.w, ok |-> TRUE, val |-> r.ok]

\* last: the latest call, its outcome, the number of values next() had returned
\* before it, and (for next) the values the peeks since the previous next() gave.
\* run: the values returned by the peek() calls since the latest next();
\* runPulls: the elements pulled from the iterator since the latest next().
NoCall == [op |-> "none", ok |-> TRUE, val |-> Unset, before |-> 0, seen |-> <<>>]

PeekableIdle == [pc |-> "idle", src |-> <<>>, w |-> NewPeekable, ret |-> <<>>,
                 last |-> NoCall, run |-> <<>>, runPulls |-> 0]

PeekableInit ==
    pk \in {[pc |-> "live", src |-> s, w |-> NewPeekable, ret |-> <<>>,
             last |-> NoCall, run |-> <<>>, runPulls |-> 0] :
               s \in SeqsUpTo(Elem \cup {NoneVal}, MaxLen)}

peekCall ==
    /\ pk.pc = "live"
    /\ Len(pk.run) < MaxRun
    /\ LET r == peek(pk.src, pk.w)
       IN  pk' = [pk EXCEPT
                    !.w = r.w,
                    !.last = [op |-> "peek", ok |-> r.ok, val |-> r.val,
                              before |-> Len(pk.ret), seen |-> <<>>],
                    !.run = IF r.ok THEN Append(@, r.val) ELSE @,
                    !.runPulls = @ + (r.w.pos - pk.w.pos)]
    /\ UNCHANGED <<ck, fs, co>>

nextCall ==
    /\ pk.pc = "live"
    /\ LET r == next(pk.src, pk.w)
       IN  pk' = [pk EXCEPT
                    !.w = r.w,
                    !.ret = IF r.ok THEN Append(@, r.val) ELSE @,
                    !.last = [op |-> "next", ok |-> r.ok, val |-> r.val,
                              before |-> Len(pk.ret), seen |-> pk.run],
                    !.run = IF r.ok THEN <<>> ELSE @,
                    !.runPulls = IF r.ok THEN 0 ELSE @]
    /\ UNCHANGED <<ck, fs, co>>

nonzeroCall ==
    /\ pk.pc = "live"
    /\ LET r == nonzero(pk.src, pk.w)
       IN  pk' = [pk EXCEPT
                    !.w = r.w,
                    !.last = [op |-> "nonzero", ok |-> r.ok,
                              val |-> IF r.val THEN 1 ELSE 0,
                              before |-> Len(pk.ret), seen |-> <<>>],
                    !.runPulls = @ + (r.w.pos - pk.w.pos)]
    /\ UNCHANGED <<ck, fs, co>>

(***************************************************************************)
(* collate                                                                 *)
(*                                                                         *)
(* srcs are the iterables in argument order, key and reverse the keyword   *)
(* arguments.  w[i] is the peekable wrapped around srcs[i] and live is the *)
(* list `peekables`, as indices into srcs.  min_or_max compares the tuples *)
(* (key(p.peek()), p); on equal keys Python 2 compares the two peekable    *)
(* objects, which define no ordering of their own, by their addresses.     *)
(* Where the allocator puts them is not fixed by the program: addr is any  *)
(* ranking of the wrappers.                                                *)
(***************************************************************************)

\* Most iterables handed to collate.
NumSources == 2

\* Longest iterable handed to collate.
MaxSrcLen == 2

\* Most elements in all the iterables of one collate call.
MaxTotal == 3

Keys == {"id", "half"}

\* The key functions tried: the default lambda a: a, and lambda a: a // 2.
key(k, x) == IF k = "id" THEN x ELSE x \div 2

RECURSIVE SumLen(_, _)
SumLen(srcs, i) == IF i = 0 THEN 0 ELSE Len(srcs[i]) + SumLen(srcs, i - 1)

Perms(n) == {f \in [1..n -> 1..n] : \A i, j \in 1..n : f[i] = f[j] => i = j}

\* Faulty variant of TupleLess: equal keys are decided by the position in the argument list.
TupleLessByPosition(t, u) == t.k < u.k \/ (t.k = u.k /\ t.p < u.p)

\* Python's < on the tuples (key value, peekable object).
TupleLess(t, u) == t.k < u.k \/ (t.k = u.k /\ t.addr < u.addr)

\* Faulty variant of min_or_max: min is used whatever reverse says.
min_or_maxAlwaysMin(reverse, T) ==
    CHOOSE t \in T : \A u \in T : u = t \/ TupleLess(t, u)

\* Line 125 applied at line 129: max if reverse else min, over the set T of tuples.
min_or_max(reverse, T) ==
    CHOOSE t \in T : \A u \in T :
        u = t \/ (IF reverse THEN TupleLess(u, t) ELSE TupleLess(t, u))

\* Faulty variant of KillEmpties: nothing is filtered out.
KillEmptiesKeepsAll(srcs, w, live) == [w |-> w, live |-> live]

\* [p for p in peekables if p]: bool(p) of each wrapper in list order.
RECURSIVE KillEmpties(_, _, _)
KillEmpties(srcs, w, live) ==
    IF live = <<>>
    THEN [w |-> w, live |-> <<>>]
    ELSE LET p == Head(live)
             b == nonzero(srcs[p], w[p])
             rest == KillEmpties(srcs, [w EXCEPT ![p] = b.w], Tail(live))
         IN  [w |-> rest.w,
              live |-> IF b.val THEN <<p>> \o rest.live ELSE rest.live]

\* The generator expression of line 129: p.peek() of each live wrapper in list
\* order; ok is FALSE when one of them raises StopIteration.
RECURSIVE PeekAll(_, _, _)
PeekAll(srcs, w, live) ==
    IF live = <<>>
    THEN [w |-> w, ok |-> TRUE, heads |-> <<>>]
    ELSE LET p == Head(live)
             r == peek(srcs[p], w[p])
         IN  IF ~r.ok
             THEN [w |-> w, ok |-> FALSE, heads |-> <<>>]
             ELSE LET rest == PeekAll(srcs, [w EXCEPT ![p] = r.w], Tail(live))
                  IN  [w |-> rest.w, ok |-> rest.ok,
                       heads |-> <<[p |-> p, val |-> r.val]>> \o rest.heads]

Range(s) == {s[i] : i \in DOMAIN s}

\* Faulty variant of Yielded: the comparison value is yielded instead of the element.
YieldedKey(k, x) == key(k, x)

\* Line 130: what is yielded is the element itself.
Yielded(k, x) == x

NoSel == [chosen |-> 0, tied |-> {}]

CollateIdle == [pc |-> "idle", srcs |-> <<>>, key |-> "id", reverse |-> FALSE,
                addr |-> <<>>, w |-> <<>>, live |-> <<>>, out |-> <<>>,
                sel |-> NoSel, err |-> FALSE]

\* The call: up to NumSources iterables of bounded length, any key in Keys,
\* either direction, and any placement of the wrapper objects.
CollateInit ==
    \E n \in 0..NumSources :
      \E s \in [1..n -> SeqsUpTo(Elem, MaxSrcLen)] :
        /\ SumLen(s, n) <= MaxTotal
        /\ \E k \in Keys, r \in BOOLEAN, a \in Perms(n) :
              co = [pc |-> "start", srcs |-> s, key |-> k, reverse |-> r,
                    addr |-> a, w |-> <<>>, live |-> <<>>, out |-> <<>>,
                    sel |-> NoSel, err |-> FALSE]

\* Line 126: one peekable per iterable; nothing is read yet.
collateWrap ==
    /\ co.pc = "start"
    /\ co' = [co EXCEPT !.pc = "wrapped",
                        !.w = [i \in 1..Len(co.srcs) |-> NewPeekable],
                        !.live = [i \in 1..Len(co.srcs) |-> i]]
    /\ UNCHANGED <<ck, fs, pk>>

\* Line 127.
collateKill ==
    /\ co.pc = "wrapped"
    /\ LET f == KillEmpties(co.srcs, co.w, co.live)
       IN  co' = [co EXCEPT !.pc = "loop", !.w = f.w, !.live = f.live]
    /\ UNCHANGED <<ck, fs, pk>>

\* Lines 128-130: a round of selection, up to the yield.
collateSelect ==
    /\ co.pc = "loop"
    /\ co.live # <<>>
    /\ LET h == PeekAll(co.srcs, co.w, co.live)
       IN  IF ~h.ok
           THEN co' = [co EXCEPT !.pc = "raised", !.err = TRUE, !.w = h.w]
           ELSE LET T == {[k |-> key(co.key, e.val), addr |-> co.addr[e.p], p |-> e.p] :
                             e \in Range(h.heads)}
                    m == min_or_max(co.reverse, T)
                    best == IF co.reverse
                            THEN CHOOSE t \in T : \A u \in T : u.k <= t.k
                            ELSE CHOOSE t \in T : \A u \in T : t.k <= u.k
                    r == next(co.srcs[m.p], h.w[m.p])
                IN  IF ~r.ok
                    THEN co' = [co EXCEPT !.pc = "raised", !.err = TRUE, !.w = h.w]
                    ELSE co' = [co EXCEPT
                                  !.pc = "yielded",
                                  !.w = [h.w EXCEPT ![m.p] = r.w],
                                  !.out = Append(@, [val |-> Yielded(co.key, r.val),
                                                     src |-> m.p]),
                                  !.sel = [chosen |-> m.p,
                                           tied |-> {t.p : t \in {u \in T : u.k = best.k}}]]
    /\ UNCHANGED <<ck, fs, pk>>

\* Line 131, when the consumer resumes the generator.
collateResume ==
    /\ co.pc = "yielded"
    /\ LET f == KillEmpties(co.srcs, co.w, co.live)
       IN  co' = [co EXCEPT !.pc = "loop", !.w = f.w, !.live = f.live]
    /\ UNCHANGED <<ck, fs, pk>>

\* Line 128 with an empty list: the generator returns.
collateFinish ==
    /\ co.pc = "loop"
    /\ co.live = <<>>
    /\ co' = [co EXCEPT !.pc = "done"]
    /\ UNCHANGED <<ck, fs, pk>>

(***************************************************************************)
(* Specifications, one per component.                                      *)
(***************************************************************************)
InitChunked == ChunkedInit /\ fs = FirstIdle /\ pk = PeekableIdle /\ co = CollateIdle

NextChunked == chunkedYield \/ chunkedStop

SpecChunked == InitChunked /\ [][NextChunked]_vars

InitFirst == FirstInit /\ ck = ChunkedIdle /\ pk = PeekableIdle /\ co = CollateIdle

NextFirst == firstCall

SpecFirst == InitFirst /\ [][NextFirst]_vars

InitPeekable == PeekableInit /\ ck = ChunkedIdle /\ fs = FirstIdle /\ co = CollateIdle

NextPeekable == peekCall \/ nextCall \/ nonzeroCall

SpecPeekable == InitPeekable /\ [][NextPeekable]_vars

InitCollate == CollateInit /\ ck = ChunkedIdle /\ fs = FirstIdle /\ pk = PeekableIdle

NextCollate ==
    collateWrap \/ collateKill \/ collateSelect \/ collateResume \/ collateFinish

SpecCollate == InitCollate /\ [][NextCollate]_vars

(***************************************************************************)
(* Properties                                                              *)
(***************************************************************************)
SortedByKey(seq, k, rev) ==
    \A i \in 1..(Len(seq) - 1) :
        IF rev THEN key(k, seq[i]) >= key(k, seq[i + 1])
               ELSE key(k, seq[i]) <= key(k, seq[i + 1])

InputsSorted ==
    \A i \in DOMAIN co.srcs : SortedByKey(co.srcs[i], co.key, co.reverse)

OutVals == [i \in DOMAIN co.out |-> co.out[i].val]

\* The values collate has yielded from source i, in output order.
FromSource(i) ==
    LET es == SelectSeq(co.out, LAMBDA e : e.src = i)
    IN  [j \in DOMAIN es |-> es[j].val]

\* C1: when every input is sorted by key in the chosen direction, what collate
\* has yielded so far is sorted by key in that direction (non-decreasing
\* without reverse, non-increasing with it).
C1_CollateSorted ==
    InputsSorted => SortedByKey(OutVals, co.key, co.reverse)

C1_Witness ==
    /\ co.pc = "done"
    /\ InputsSorted
    /\ co.reverse
    /\ Len(co.out) = 3
    /\ {co.out[i].src : i \in DOMAIN co.out} = {1, 2}
    /\ key(co.key, co.out[1].val) > key(co.key, co.out[3].val)

\* C2: for any inputs and key, the output is an interleaving of the inputs:
\* the elements yielded from each source are, in order, a prefix of that source
\* (the elements themselves, not their keys), and when collate is done each
\* prefix is the whole source, so the count is the sum of the input lengths.
C2_CollateInterleaving ==
    /\ \A i \in DOMAIN co.srcs :
          /\ Len(FromSource(i)) <= Len(co.srcs[i])
          /\ FromSource(i) = SubSeq(co.srcs[i], 1, Len(FromSource(i)))
    /\ \A j \in DOMAIN co.out : co.out[j].src \in DOMAIN co.srcs
    /\ co.pc = "done" =>
          /\ Len(co.out) = SumLen(co.srcs, Len(co.srcs))
          /\ \A i \in DOMAIN co.srcs : FromSource(i) = co.srcs[i]

C2_Witness ==
    /\ co.pc = "done"
    /\ ~InputsSorted
    /\ co.key = "half"
    /\ Len(co.out) = 3
    /\ \E j \in DOMAIN co.out : key(co.key, co.out[j].val) # co.out[j].val

\* C3 as claimed: among the live sources whose head has the extremal key, the
\* one yielded from is the earliest in the argument order.
C3_TieByArgumentOrder ==
    co.pc = "yielded" => \A t \in co.sel.tied : co.sel.chosen <= t

\* C3 as the code has it: the source yielded from is one of those whose head has
\* the extremal key, namely the one whose peekable object is the least under
\* Python's object ordering without reverse and the greatest with reverse.
C3_TieByObjectOrder ==
    co.pc = "yielded" =>
        /\ co.sel.chosen \in co.sel.tied
        /\ \A t \in co.sel.tied :
              IF co.reverse THEN co.addr[t] <= co.addr[co.sel.chosen]
                            ELSE co.addr[co.sel.chosen] <= co.addr[t]

C3_Witness ==
    /\ co.pc = "yielded"
    /\ Cardinality(co.sel.tied) >= 2
    /\ \E t \in co.sel.tied : t < co.sel.chosen

\* C4: the elements pulled from the underlying iterator are those next() has
\* returned plus the cached one, if any; the peek() calls made since the latest
\* next(), boolean conversions among them, all returned the same value, pulled
\* at most one element between them and left the wrapper holding that value.
C4_PeekIdempotent ==
    /\ pk.w.pos = Len(pk.ret) + (IF pk.w.has THEN 1 ELSE 0)
    /\ pk.runPulls <= 1
    /\ \A i \in DOMAIN pk.run : pk.run[i] = pk.run[1]
    /\ pk.run # <<>> =>
          pk.w = [pos |-> Len(pk.ret) + 1, has |-> TRUE, val |-> pk.run[1]]

C4_Witness ==
    /\ Len(pk.run) >= 2
    /\ Len(pk.ret) >= 1
    /\ pk.last.op = "nonzero"

\* C5: the values next() has returned are a prefix of the source, in order; a
\* peek() returns the element the following next() returns, and a next() returns
\* what the peeks before it returned; once every element has been returned,
\* peek() and next() raise StopIteration and nothing is cached.
C5_PeekableIsSource ==
    /\ Len(pk.ret) <= Len(pk.src)
    /\ pk.ret = SubSeq(pk.src, 1, Len(pk.ret))
    /\ (pk.last.op = "peek" /\ pk.last.ok) => pk.last.val = pk.src[Len(pk.ret) + 1]
    /\ (pk.last.op = "next" /\ pk.last.ok) =>
          /\ pk.last.val = pk.src[pk.last.before + 1]
          /\ \A i \in DOMAIN pk.last.seen : pk.last.seen[i] = pk.last.val
    /\ (pk.last.op \in {"peek", "next"} /\ pk.last.before = Len(pk.src)) => ~pk.last.ok
    /\ Len(pk.ret) = Len(pk.src) => ~pk.w.has

C5_Witness ==
    /\ Len(pk.src) >= 2
    /\ Len(pk.ret) = Len(pk.src)
    /\ pk.last.op = "peek"
    /\ ~pk.last.ok

\* C6: a boolean conversion does not raise; it gives True exactly when an
\* element is still to be returned, whatever that element is, which is exactly
\* when a peek() right after it succeeds; afterwards the wrapper holds that
\* element and no other has been read.
C6_NonzeroTellsRemaining ==
    pk.last.op = "nonzero" =>
        /\ pk.last.ok
        /\ (pk.last.val = 1) <=> (pk.last.before < Len(pk.src))
        /\ (pk.last.val = 1) <=> peek(pk.src, pk.w).ok
        /\ pk.last.val = 1 =>
              pk.w = [pos |-> pk.last.before + 1, has |-> TRUE,
                      val |-> pk.src[pk.last.before + 1]]
        /\ pk.last.val # 1 => (~pk.w.has /\ pk.w.pos = Len(pk.src))

C6_Witness ==
    /\ pk.last.op = "nonzero"
    /\ pk.last.val = 1
    /\ ~Truthy(pk.w.val)

RECURSIVE Concat(_)
Concat(groups) ==
    IF groups = <<>> THEN <<>> ELSE Head(groups) \o Concat(Tail(groups))

C8_FirstOrDefault ==
    fs.pc = "done" =>
        /\ fs.src # <<>> => (fs.res.kind = "return" /\ fs.res.val = fs.src[1])
        /\ (fs.src = <<>> /\ fs.default # _marker) =>
              (fs.res.kind = "return" /\ fs.res.val = fs.default)
        /\ (fs.src = <<>> /\ fs.default = _marker) => fs.res.kind = "ValueError"
        /\ fs.res.pulled <= 1
        /\ fs.res.pulled = (IF fs.src = <<>> THEN 0 ELSE 1)

C8_Witness ==
    /\ fs.pc = "done"
    /\ fs.src = <<>>
    /\ fs.default = NoneVal
    /\ fs.res.kind = "return"

\* The sources that still have an element collate has not yielded, in
\* argument order.
Unfinished ==
    SelectSeq([i \in DOMAIN co.srcs |-> i],
              LAMBDA i : Len(FromSource(i)) < Len(co.srcs[i]))

\* C9: no peek() or next() of collate raises StopIteration; at the start of a
\* round the live list is exactly the sources with an element left, each with
\* that element cached, so a source that was empty from the start is never in
\* it and one whose last element was yielded has left it; collate is done only
\* with an empty live list and every element yielded.
C9_LiveHaveHeads ==
    /\ ~co.err
    /\ co.pc = "loop" =>
          /\ co.live = Unfinished
          /\ \A i \in DOMAIN co.live :
                /\ co.w[co.live[i]].has
                /\ co.w[co.live[i]].pos = Len(FromSource(co.live[i])) + 1
    /\ co.pc = "yielded" =>
          \A i \in DOMAIN co.live : Len(co.srcs[co.live[i]]) > 0
    /\ co.pc = "done" => (co.live = <<>> /\ Unfinished = <<>>)

C9_Witness ==
    /\ co.pc = "loop"
    /\ Len(co.srcs) = 2
    /\ co.srcs[1] = <<>>
    /\ Len(co.srcs[2]) = 2
    /\ Len(co.out) = 1
    /\ co.live = <<2>>

\* C10: collate has pulled from each source at most one element more than it
\* has yielded from that source.
C10_OneAhead ==
    \A i \in DOMAIN co.w : co.w[i].pos <= Len(FromSource(i)) + 1

C10_Witness ==
    /\ co.pc = "yielded"
    /\ Len(co.out) = 2
    /\ \E i \in DOMAIN co.w : co.w[i].pos = Len(FromSource(i)) + 1
    /\ \E i \in DOMAIN co.w : co.w[i].pos = Len(FromSource(i)) /\ co.w[i].pos > 0

====
